---- MODULE Spec2Model ----
(***************************************************************************)
(* The boids simulation of src/main8.py (the last of the eight variants;   *)
(* main6.py and main7.py share its Boid.update) as a state machine.        *)
(*                                                                         *)
(* Python floats are modelled as fixed-point integers: a real r is the     *)
(* integer r * ONE, every product and quotient is rounded to the nearest   *)
(* representable value, as IEEE arithmetic rounds to the nearest float.    *)
(* pygame.Vector2 is a record [x, y] of two such numbers.                  *)
(* An uncaught Python exception ends the program: pc = "error".            *)
(***************************************************************************)
EXTENDS Integers, Sequences, FiniteSets, TLC

(***************************************************************************)
(* Bounds of the model.                                                    *)
(***************************************************************************)
\* fixed-point resolution: the integer that stands for 1.0
ONE == 100
\* number of agents (100 in main8.py:12, scaled down)
NUM_BOIDS == 3
\* window size in pixels (main8.py:52-53 take it from the monitor)
SCREEN_WIDTH == 60
SCREEN_HEIGHT == 40
\* seeded attractors (10 in main8.py:33) and their margin (100 in main8.py:35)
ATTRACTOR_INIT_NUM == 2
ATTRACTOR_INIT_MARGIN == 10
\* iterations of the main loop that are explored
MaxTicks == 3
\* events that arrive while the program runs
MaxEvents == 2

(***************************************************************************)
(* Configuration of main8.py, lines 15-46. Reals are scaled by ONE.        *)
(***************************************************************************)
START_SPEED == (225 * ONE) \div 100
MAX_SPEED == 5 * ONE
PERCEPTION_RADIUS == 30 * ONE
BOUNDARY_PERCEPTION == PERCEPTION_RADIUS
SEPARATION_RADIUS == 40 * ONE
COHESION_WEIGHT == (4 * ONE) \div 10
ALIGNMENT_WEIGHT == (2 * ONE) \div 10
SEPARATION_WEIGHT == 3 * ONE
\* RANDOMNESS_WEIGHT = 0.225, in thousandths
RANDOMNESS_WEIGHT == 225
\* integer-valued settings, used unscaled
MASS_EQUIVALENT == 2
ATTRACTOR_FORCE == 10
ATTRACTOR_FORCE_DISTANCE_EXP == -1
PROXIMITY_NORMALIZATION == 5
BASE_COLOR == 50
ATTRACTOR_COLOR_FACTOR == 2
\* TURN_FACTOR = 0.0325, in ten-thousandths
TURN_FACTOR == 325
SPEED_ADJUSTMENT_FACTOR == (3 * ONE) \div 10
ATTRACTOR_FORCE_MAX == 20 * ONE
ACCELERATION_UPPER_EXPECTED == MAX_SPEED \div 10
\* the damping factor of Boid.update, line 148
DAMPING == (95 * ONE) \div 100
\* the noise offsets advance by 0.01 per update
NOISE_STEP == ONE \div 100
\* np.maximum(dist, 1e-5): the smallest positive distance of the sampler
DIST_EPSILON == IF ONE \div 100000 > 0 THEN ONE \div 100000 ELSE 1
\* BG_SCALE = 0.25, line 77
BG_SCALE == (25 * ONE) \div 100

(***************************************************************************)
(* Arithmetic on fixed-point numbers.                                      *)
(***************************************************************************)
Abs(a) == IF a >= 0 THEN a ELSE -a
Min(a, b) == IF a <= b THEN a ELSE b
Max(a, b) == IF a >= b THEN a ELSE b

\* a / b rounded to the nearest integer (b > 0), halves away from zero
RDiv(a, b) == IF a >= 0 THEN (2 * a + b) \div (2 * b)
                        ELSE -((2 * (-a) + b) \div (2 * b))

\* a / b truncated toward zero (b > 0): Python's int(), numpy's astype(uint8)
TDiv(a, b) == IF a >= 0 THEN a \div b ELSE -((-a) \div b)

\* product and quotient of two fixed-point numbers
FMul(a, b) == RDiv(a * b, ONE)
FDiv(a, b) == RDiv(a * ONE, b)

\* Newton's iteration from x >= sqrt(n) down to the floor of sqrt(n)
RECURSIVE SqrtIter(_, _)
SqrtIter(n, x) == IF (x + n \div x) \div 2 >= x THEN x
                  ELSE SqrtIter(n, (x + n \div x) \div 2)

\* a power of two above sqrt(n)
SqrtStart(n) == IF n < 256 THEN 16
                ELSE IF n < 65536 THEN 256
                ELSE IF n < 16777216 THEN 4096
                ELSE 46341

SqrtRound(n, r) == IF n - r * r > r THEN r + 1 ELSE r

\* square root of n >= 0, rounded to the nearest integer
Sqrt(n) == IF n = 0 THEN 0 ELSE SqrtRound(n, SqrtIter(n, SqrtStart(n)))

\* d ** e for a fixed-point d > 0 and an integer exponent e
RECURSIVE Pow(_, _)
Pow(d, e) == IF e = 0 THEN ONE
             ELSE IF e > 0 THEN FMul(d, Pow(d, e - 1))
             ELSE FDiv(ONE, Pow(d, -e))

(***************************************************************************)
(* pygame.Vector2.                                                         *)
(***************************************************************************)
Vec(a, b) == [x |-> a, y |-> b]
Zero == Vec(0, 0)
VAdd(u, v) == Vec(u.x + v.x, u.y + v.y)
VSub(u, v) == Vec(u.x - v.x, u.y - v.y)
\* v * s and v / s for a fixed-point scalar s
VMul(v, s) == Vec(FMul(v.x, s), FMul(v.y, s))
VDiv(v, s) == Vec(FDiv(v.x, s), FDiv(v.y, s))
\* v / n for an integer n
VDivInt(v, n) == Vec(RDiv(v.x, n), RDiv(v.y, n))
Dot(u, v) == u.x * v.x + u.y * v.y
Length(v) == Sqrt(v.x * v.x + v.y * v.y)
DistanceTo(u, v) == Length(VSub(u, v))
\* Vector2.normalize() raises ValueError on a vector of length zero
CanNormalize(v) == Length(v) # 0
Normalize(v) == VDiv(v, Length(v))

(***************************************************************************)
(* Boid.apply_rules, lines 150-169.                                        *)
(***************************************************************************)
Boids == 1..NUM_BOIDS

\* the perception test of line 159 made with the wrong radius
IsNeighborBySeparationRadius(distance) == distance < SEPARATION_RADIUS

\* line 159 and line 160: the two radius tests
IsNeighbor(distance) == distance < PERCEPTION_RADIUS
IsTooClose(distance) == distance < SEPARATION_RADIUS

\* lines 161-162: diff.normalize() / distance
SeparationTerm(diff, distance) == VDiv(Normalize(diff), distance)

\* lines 151-154: the locals before the scan; push[j] is what boid j added to
\* separation, kept for the record of the step
RulesStart == [raised |-> FALSE, separation |-> Zero, alignment |-> Zero,
               cohesion |-> Zero, total |-> 0,
               push |-> [j \in Boids |-> Zero], scanned |-> {}]

\* lines 160-165: the other boid j is within the perception radius
RulesCount(acc, other, j, term) ==
    [raised     |-> FALSE,
     separation |-> VAdd(acc.separation, term),
     alignment  |-> VAdd(acc.alignment, other.velocity),
     cohesion   |-> VAdd(acc.cohesion, other.position),
     total      |-> acc.total + 1,
     push       |-> [acc.push EXCEPT ![j] = term],
     scanned    |-> acc.scanned]

\* lines 159-162, with diff and distance computed
RulesTest(acc, other, j, diff, distance) ==
    IF ~IsNeighbor(distance) THEN acc
    ELSE IF ~IsTooClose(distance) THEN RulesCount(acc, other, j, Zero)
    ELSE IF ~CanNormalize(diff) THEN [acc EXCEPT !.raised = TRUE]
    ELSE RulesCount(acc, other, j, SeparationTerm(diff, distance))

\* lines 158-165: the body of the scan for one other boid j
RulesVisit(acc, me, other, j) ==
    RulesTest(acc, other, j, VSub(me.position, other.position),
              DistanceTo(me.position, other.position))

\* lines 155-157 with the subject told from the others by its position
RECURSIVE RulesScanSkippingByPosition(_, _, _, _)
RulesScanSkippingByPosition(acc, self, bs, j) ==
    IF j > NUM_BOIDS \/ acc.raised THEN acc
    ELSE RulesScanSkippingByPosition(
             IF bs[j].position = bs[self].position THEN acc
             ELSE RulesVisit([acc EXCEPT !.scanned = @ \cup {j}],
                             bs[self], bs[j], j),
             self, bs, j + 1)

\* lines 155-157: the scan over the list, skipping the subject itself;
\* scanned holds the boids that got past the test of line 156
RECURSIVE RulesScan(_, _, _, _)
RulesScan(acc, self, bs, j) ==
    IF j > NUM_BOIDS \/ acc.raised THEN acc
    ELSE RulesScan(IF j = self THEN acc
                   ELSE RulesVisit([acc EXCEPT !.scanned = @ \cup {j}],
                                   bs[self], bs[j], j),
                   self, bs, j + 1)

\* line 169 with the average taken over one boid too many
CohesionOffsetCountingSelf(cohesion, total, position) ==
    VSub(VDivInt(cohesion, total + 1), position)

\* line 169: (cohesion / total) - self.position
CohesionOffset(cohesion, total, position) ==
    VSub(VDivInt(cohesion, total), position)

\* what apply_rules leaves: the acceleration, whether it raised, and the
\* three terms it added (Zero for a term that was not added)
RulesResult(raised, scan, acceleration, sep, ali, coh) ==
    [raised |-> raised, acceleration |-> acceleration,
     total |-> scan.total, push |-> scan.push, scanned |-> scan.scanned,
     separation |-> sep, alignment |-> ali, cohesion |-> coh]

\* line 169, with the offset computed
RulesCohesion(me, scan, sep, ali, off) ==
    IF ~CanNormalize(off)
    THEN RulesResult(TRUE, scan, VAdd(VAdd(me.acceleration, sep), ali),
                     sep, ali, Zero)
    ELSE RulesResult(FALSE, scan,
                     VAdd(VAdd(VAdd(me.acceleration, sep), ali),
                          VMul(Normalize(off), me.cohesion_weight)),
                     sep, ali, VMul(Normalize(off), me.cohesion_weight))

\* lines 166-169 with the separation divided by total like the other two
RulesAddAveragingSeparation(me, scan) ==
    IF scan.raised THEN RulesResult(TRUE, scan, me.acceleration, Zero, Zero, Zero)
    ELSE IF ~(scan.total > 0)
         THEN RulesResult(FALSE, scan, me.acceleration, Zero, Zero, Zero)
    ELSE RulesCohesion(me, scan,
             VMul(VDivInt(scan.separation, scan.total), me.separation_weight),
             VMul(VDivInt(scan.alignment, scan.total), me.alignment_weight),
             CohesionOffset(scan.cohesion, scan.total, me.position))

\* lines 166-169, after the scan
RulesAdd(me, scan) ==
    IF scan.raised THEN RulesResult(TRUE, scan, me.acceleration, Zero, Zero, Zero)
    ELSE IF ~(scan.total > 0)
         THEN RulesResult(FALSE, scan, me.acceleration, Zero, Zero, Zero)
    ELSE RulesCohesion(me, scan,
             VMul(scan.separation, me.separation_weight),
             VMul(VDivInt(scan.alignment, scan.total), me.alignment_weight),
             CohesionOffset(scan.cohesion, scan.total, me.position))

ApplyRules(self, bs) == RulesAdd(bs[self], RulesScan(RulesStart, self, bs, 1))

(***************************************************************************)
(* Boid.avoid_edges, lines 171-182.                                        *)
(***************************************************************************)
TurnForce(depth) == RDiv(TURN_FACTOR * depth, 10000)

\* lines 174-181 with the sign of the high edge turned outward
EdgeForcePushingOutward(coordinate, extent) ==
    LET margin == BOUNDARY_PERCEPTION
    IN  IF coordinate < margin THEN TurnForce(margin - coordinate)
        ELSE IF coordinate > extent - margin
             THEN TurnForce(coordinate - (extent - margin))
        ELSE 0

EdgeForce(coordinate, extent) ==
    LET margin == BOUNDARY_PERCEPTION
    IN  IF coordinate < margin THEN TurnForce(margin - coordinate)
        ELSE IF coordinate > extent - margin
             THEN -TurnForce(coordinate - (extent - margin))
        ELSE 0

AvoidEdges(position) ==
    Vec(EdgeForce(position.x, SCREEN_WIDTH * ONE),
        EdgeForce(position.y, SCREEN_HEIGHT * ONE))

(***************************************************************************)
(* Boid.add_noise, lines 184-189. noise.pnoise1 is a library function: a   *)
(* deterministic, continuous function of the offset with values in         *)
(* [-1, 1]. A triangle wave of period 4 stands for it; what varies from    *)
(* boid to boid is the offset drawn in Boid.__init__.                      *)
(***************************************************************************)
Triangle(phase) ==
    IF phase <= ONE THEN phase
    ELSE IF phase <= 3 * ONE THEN 2 * ONE - phase
    ELSE phase - 4 * ONE

pnoise1(t) == Triangle(t % (4 * ONE))

\* line 187
NoiseForce(nx, ny) == Vec(RDiv(nx * RANDOMNESS_WEIGHT, 1000),
                          RDiv(ny * RANDOMNESS_WEIGHT, 1000))

\* lines 185-187
AddNoise(me) ==
    NoiseForce(pnoise1(me.noise_offset_x), pnoise1(me.noise_offset_y))

(***************************************************************************)
(* Boid.apply_attractors, lines 191-197.                                   *)
(***************************************************************************)
\* lines 195-196 with the clamp of line 196 set for the force before its
\* division by the mass, not for the acceleration
AttractorMagnitudeClampedAsForce(d) ==
    Min(RDiv(ATTRACTOR_FORCE * Pow(d, ATTRACTOR_FORCE_DISTANCE_EXP),
             MASS_EQUIVALENT),
        ATTRACTOR_FORCE_MAX * MASS_EQUIVALENT)

\* lines 195-196 without the division by MASS_EQUIVALENT
AttractorMagnitudeIgnoringMass(d) ==
    Min(ATTRACTOR_FORCE * Pow(d, ATTRACTOR_FORCE_DISTANCE_EXP),
        ATTRACTOR_FORCE_MAX)

\* lines 195-196: the clamped magnitude at distance d > 0
AttractorMagnitude(d) ==
    Min(RDiv(ATTRACTOR_FORCE * Pow(d, ATTRACTOR_FORCE_DISTANCE_EXP),
             MASS_EQUIVALENT),
        ATTRACTOR_FORCE_MAX)

\* lines 194-197, with the length of direction computed
PullAlong(direction, d) ==
    IF d # 0 THEN VMul(Normalize(direction), AttractorMagnitude(d)) ELSE Zero

\* lines 193-197: what one attractor adds to the acceleration
AttractorPull(attractor, position) ==
    PullAlong(VSub(attractor, position), Length(VSub(attractor, position)))

\* lines 192-197 with the clamp of line 196 put on the running total
RECURSIVE ApplyAttractorsClampingTotal(_, _, _, _)
ApplyAttractorsClampingTotal(acceleration, position, atts, k) ==
    IF k > Len(atts) THEN acceleration
    ELSE ApplyAttractorsClampingTotal(
             LET total == VAdd(acceleration, AttractorPull(atts[k], position))
             IN  IF Length(total) > ATTRACTOR_FORCE_MAX \div 10
                 THEN VMul(Normalize(total), ATTRACTOR_FORCE_MAX \div 10)
                 ELSE total,
             position, atts, k + 1)

\* lines 192-197: the loop over the list
RECURSIVE ApplyAttractors(_, _, _, _)
ApplyAttractors(acceleration, position, atts, k) ==
    IF k > Len(atts) THEN acceleration
    ELSE ApplyAttractors(VAdd(acceleration, AttractorPull(atts[k], position)),
                         position, atts, k + 1)

(***************************************************************************)
(* clamp_color, get_color and Boid.update_color, lines 55-62 and 199-214.  *)
(***************************************************************************)
\* line 56 without the clamp
clamp_color_passing(color) == color

clamp_color(color) == Max(0, Min(255, color))

\* base_value + int((255 - base_value) * factor)
get_color(base_value, factor) == base_value + TDiv((255 - base_value) * factor, ONE)

\* lines 201-206
RECURSIVE Proximity(_, _, _)
Proximity(self, bs, j) ==
    IF j > NUM_BOIDS THEN 0
    ELSE LET distance == DistanceTo(bs[self].position, bs[j].position)
         IN  (IF j # self /\ distance < PERCEPTION_RADIUS
              THEN PERCEPTION_RADIUS - distance ELSE 0)
             + Proximity(self, bs, j + 1)

\* line 209. Above 2.0 the cube is at least 8.0 and get_color's result is
\* clamped to 255 whatever it is, so the cube is not taken further.
Cube(f) == IF f > 2 * ONE THEN 8 * ONE ELSE FMul(FMul(f, f), f)

UpdateColor(self, bs) ==
    LET proximity_factor ==
            RDiv(FDiv(Proximity(self, bs, 1), PERCEPTION_RADIUS),
                 PROXIMITY_NORMALIZATION)
        acceleration_factor ==
            3 * FDiv(FDiv(Length(bs[self].acceleration),
                          ACCELERATION_UPPER_EXPECTED), MAX_SPEED)
    IN  <<clamp_color(get_color(BASE_COLOR, Cube(acceleration_factor))),
          clamp_color(BASE_COLOR),
          clamp_color(get_color(BASE_COLOR, proximity_factor))>>

(***************************************************************************)
(* Boid.update, lines 131-148.                                             *)
(***************************************************************************)
\* lines 140-141
CapSpeed(velocity, speed) ==
    IF speed > MAX_SPEED THEN VMul(Normalize(velocity), MAX_SPEED) ELSE velocity

\* lines 142-144: speed is the length measured on line 139, before the cap
Relax(velocity, speed) ==
    IF speed # 0
    THEN VMul(Normalize(velocity),
              speed + FMul(START_SPEED - speed, SPEED_ADJUSTMENT_FACTOR))
    ELSE velocity

\* line 148
Damp(velocity) == VMul(velocity, DAMPING)

\* what the other boids' fields were when update was called
Seen(bs) == [j \in Boids |-> [position |-> bs[j].position,
                              velocity |-> bs[j].velocity]]

\* lines 145-148 with line 148 damping the velocity of every boid of the
\* list
MoveDampingEveryBoid(self, bs, me, velocity) ==
    [k \in Boids |->
        IF k = self
        THEN [me EXCEPT !.position = VAdd(me.position, velocity),
                        !.velocity = Damp(velocity),
                        !.color = UpdateColor(self,
                            [bs EXCEPT ![self] =
                                [me EXCEPT !.position =
                                    VAdd(me.position, velocity)]])]
        ELSE [bs[k] EXCEPT !.velocity = Damp(bs[k].velocity)]]

\* lines 145-148 with a boid whose blue channel is past half moving by the
\* damped velocity
MoveSlowedByColor(self, bs, me, velocity) ==
    [bs EXCEPT ![self] =
        [me EXCEPT !.position = VAdd(me.position,
                                     IF me.color[3] > 128 THEN Damp(velocity)
                                     ELSE velocity),
                   !.velocity = Damp(velocity),
                   !.color = UpdateColor(self,
                       [bs EXCEPT ![self] =
                           [me EXCEPT !.position = VAdd(me.position, velocity)]])]]

\* lines 145-148 with the damping of line 148 moved before line 145
MoveAfterDamping(self, bs, me, velocity) ==
    [bs EXCEPT ![self] =
        [me EXCEPT !.position = VAdd(me.position, Damp(velocity)),
                   !.velocity = Damp(velocity),
                   !.color = UpdateColor(self,
                       [bs EXCEPT ![self] =
                           [me EXCEPT !.position =
                               VAdd(me.position, Damp(velocity))]])]]

\* lines 145-148: the boid moves by the velocity, is coloured and damped
Move(self, bs, me, velocity) ==
    [bs EXCEPT ![self] =
        [me EXCEPT !.position = VAdd(me.position, velocity),
                   !.velocity = Damp(velocity),
                   !.color = UpdateColor(self,
                       [bs EXCEPT ![self] =
                           [me EXCEPT !.position = VAdd(me.position, velocity)]])]]

\* lines 139-148, with the speed of line 139 and the velocities computed
Integrate(self, bs, atts, me, rules, speed, capped, relaxed) ==
    [boids |-> Move(self, bs, me, relaxed),
     step  |-> [boid |-> self, raised |-> FALSE, seen |-> Seen(bs),
                attractors |-> atts, rules |-> rules,
                pulls |-> [k \in 1..Len(atts) |->
                              AttractorPull(atts[k], me.position)],
                edges |-> AvoidEdges(bs[self].position),
                noise |-> AddNoise(bs[self]),
                acceleration |-> me.acceleration,
                speed |-> speed, capped |-> capped, moved_by |-> relaxed]]

\* lines 138-139: the velocity after the forces
Accelerate(self, bs, atts, me, rules, velocity) ==
    Integrate(self, bs, atts, [me EXCEPT !.velocity = velocity], rules,
              Length(velocity),
              CapSpeed(velocity, Length(velocity)),
              Relax(CapSpeed(velocity, Length(velocity)), Length(velocity)))

\* lines 134-138, with the four forces summed
Forces(self, bs, atts, me, rules, acceleration) ==
    Accelerate(self, bs, atts,
               [me EXCEPT !.acceleration = acceleration,
                          !.noise_offset_x = @ + NOISE_STEP,
                          !.noise_offset_y = @ + NOISE_STEP],
               rules,
               VAdd(me.velocity, VDivInt(acceleration, MASS_EQUIVALENT)))

\* lines 133-136, with apply_rules done: an exception ends the call
AfterRules(self, bs, atts, me, rules) ==
    IF rules.raised
    THEN [boids |-> [bs EXCEPT ![self] =
                        [me EXCEPT !.acceleration = rules.acceleration]],
          step  |-> [boid |-> self, raised |-> TRUE, seen |-> Seen(bs),
                     attractors |-> atts, rules |-> rules, pulls |-> <<>>,
                     edges |-> Zero, noise |-> Zero,
                     acceleration |-> rules.acceleration,
                     speed |-> 0, capped |-> Zero, moved_by |-> Zero]]
    ELSE Forces(self, bs, atts, me, rules,
                ApplyAttractors(
                    VAdd(VAdd(rules.acceleration, AvoidEdges(me.position)),
                         AddNoise(me)),
                    me.position, atts, 1))

\* lines 133-148 without the reset of line 132
UpdateKeepingAcceleration(self, bs, atts) ==
    AfterRules(self, bs, atts, bs[self], ApplyRules(self, bs))

\* One call of boids[self].update(boids, attractors): line 132 resets the
\* acceleration, the rest follows. The result is the list after the call and
\* the record of the step: the values of its locals, and whether it raised.
Update(self, bs, atts) ==
    AfterRules(self, bs, atts,
               [bs[self] EXCEPT !.acceleration = Zero],
               ApplyRules(self, [bs EXCEPT ![self].acceleration = Zero]))

(***************************************************************************)
(* Boid.draw, lines 216-222: the angle of the glyph. Angles are radians     *)
(* scaled by ONE.                                                          *)
(***************************************************************************)
PI == RDiv(314159 * ONE, 100000)

\* atan(z) for 0 <= z <= 1: z * pi / 4 + 0.273 * z * (1 - z)
Atan(z) == RDiv(z * PI, 4 * ONE) + RDiv(273 * z * (ONE - z), 1000 * ONE)

\* the angle of (x, y) with x >= 0 and y >= 0, not both zero
AtanFirstQuadrant(y, x) ==
    IF y <= x THEN Atan(FDiv(y, x)) ELSE RDiv(PI, 2) - Atan(FDiv(x, y))

\* math.atan2(y, x); math.atan2(0, 0) is 0.0, it does not raise
Atan2(y, x) ==
    IF x = 0 /\ y = 0 THEN 0
    ELSE IF x >= 0 /\ y >= 0 THEN AtanFirstQuadrant(y, x)
    ELSE IF x < 0 /\ y >= 0 THEN PI - AtanFirstQuadrant(y, -x)
    ELSE IF x < 0 THEN -(PI - AtanFirstQuadrant(-y, -x))
    ELSE -AtanFirstQuadrant(-y, x)

\* line 217: the angle draw computes for a boid
DrawAngle(me) == Atan2(me.velocity.y, me.velocity.x)

\* what is known of a boid's heading after draw: the angle draw used, and
\* the last angle that came from a velocity other than zero
Draw(me, before) ==
    [angle |-> DrawAngle(me),
     valid |-> IF me.velocity # Zero THEN DrawAngle(me) ELSE before.valid]

(***************************************************************************)
(* compute_background_surface, lines 78-113: the brightness grid. The      *)
(* upscaling to a pygame surface is left to the display.                   *)
(***************************************************************************)
bg_width == TDiv(SCREEN_WIDTH * BG_SCALE, ONE)
bg_height == TDiv(SCREEN_HEIGHT * BG_SCALE, ONE)

\* np.linspace(0, extent, n)[k]
Linspace(extent, n, k) == RDiv(k * extent * ONE, n - 1)

\* lines 93-104: the force of one attractor on the grid point at
FieldAlong(d, dist) ==
    VMul(VDiv(d, dist),
         Min(ATTRACTOR_FORCE * Pow(dist, ATTRACTOR_FORCE_DISTANCE_EXP),
             ATTRACTOR_FORCE_MAX))

FieldForce(attractor, at) ==
    FieldAlong(VSub(attractor, at),
               Max(Length(VSub(attractor, at)), DIST_EPSILON))

RECURSIVE NetForce(_, _, _)
NetForce(atts, at, k) ==
    IF k > Len(atts) THEN Zero
    ELSE VAdd(FieldForce(atts[k], at), NetForce(atts, at, k + 1))

\* lines 106-109 without the np.clip of line 109
BrightnessUnclipped(net_force) ==
    TDiv(net_force * ATTRACTOR_COLOR_FACTOR * 255, ATTRACTOR_FORCE_MAX)

\* lines 106-109
Brightness(net_force) ==
    Max(0, Min(255, TDiv(net_force * ATTRACTOR_COLOR_FACTOR * 255,
                         ATTRACTOR_FORCE_MAX)))

compute_background_surface(atts) ==
    [row \in 1..bg_height |->
        [col \in 1..bg_width |->
            Brightness(Length(NetForce(atts,
                Vec(Linspace(SCREEN_WIDTH, bg_width, col - 1),
                    Linspace(SCREEN_HEIGHT, bg_height, row - 1)), 1)))]]

(***************************************************************************)
(* The state of main(), lines 224-274.                                     *)
(***************************************************************************)
VARIABLES
    boids,               \* the list of Boid objects, by index
    attractors,          \* the list of attractor points
    background_surface,  \* the cached brightness grid
    attractors_changed,  \* the flag of lines 237, 247, 251
    running,             \* the loop flag
    events,              \* what is left of the list pygame.event.get() returned
    i,                   \* the index of the next boid of the sweep, lines 260-262
    pc,                  \* where main() is: "loop", "events", "sweep",
                         \* "compose", "done" or "error"
    tick,                \* completed iterations of the loop
    step,                \* the locals of the last Boid.update call
    snapshot,            \* the list as it was when the sweep started
    sampled,             \* the attractors the last call of
                         \* compute_background_surface was given
    polled,              \* the events pygame.event.get() has returned so far
    arrived,             \* those events, in the order they were returned
    calls,               \* the calls of compute_background_surface so far:
                         \* the list given, the boids then, the grid returned
                         \* and the list after the call
    updates,             \* how often each boid was updated in this tick
    drawn                \* per boid, the angle of its last draw and the last
                         \* angle that came from a velocity other than zero

vars == <<boids, attractors, background_surface, attractors_changed, running,
          events, i, pc, tick, step, snapshot, sampled,
          polled, arrived, calls, updates, drawn>>

(***************************************************************************)
(* Boid.__init__, lines 116-129, and initialize_attractors, lines 64-74:   *)
(* the random draws are inputs.                                            *)
(***************************************************************************)
\* places a boid may start at: 17.5 apart, three to a row
Spot(k) == Vec(12 * ONE + RDiv(35 * ONE * ((k - 1) % 3), 2),
               20 * ONE + RDiv(35 * ONE * ((k - 1) \div 3), 2))
Spots == {Spot(1), Spot(2), Spot(3)}

\* the heading and the +-20% jitter of the weights drawn for the k-th boid
Heading(k) == IF k % 2 = 1 THEN Vec(ONE, 0) ELSE Vec(0, ONE)
Jitter(k) == IF k % 2 = 1 THEN (8 * ONE) \div 10 ELSE (12 * ONE) \div 10

NewBoid(position, k) ==
    [position          |-> position,
     velocity          |-> VMul(Heading(k), START_SPEED),
     acceleration      |-> Zero,
     color             |-> <<0, 0, 0>>,
     cohesion_weight   |-> FMul(COHESION_WEIGHT, Jitter(k)),
     alignment_weight  |-> FMul(ALIGNMENT_WEIGHT, Jitter(k + 1)),
     separation_weight |-> FMul(SEPARATION_WEIGHT, Jitter(k)),
     noise_offset_x    |-> RDiv(13737 * k * ONE, 100),
     noise_offset_y    |-> RDiv(21191 * k * ONE, 100)]

\* uniform(MARGIN, extent - MARGIN) on both axes
InSeedArea(p) ==
    /\ p.x >= ATTRACTOR_INIT_MARGIN * ONE
    /\ p.x <= (SCREEN_WIDTH - ATTRACTOR_INIT_MARGIN) * ONE
    /\ p.y >= ATTRACTOR_INIT_MARGIN * ONE
    /\ p.y <= (SCREEN_HEIGHT - ATTRACTOR_INIT_MARGIN) * ONE

\* seeded attractors: on the second spot, the smallest representable
\* distance beside it, and far from all spots
SeedPoints == {p \in {Spot(2), VAdd(Spot(2), Vec(1, 0)),
                      Vec(50 * ONE, 28 * ONE)} : InSeedArea(p)}

SeedLists == [1..ATTRACTOR_INIT_NUM -> SeedPoints]

\* the list random.seed(ATTRACTOR_INIT_SEED) gives: far, beside the second
\* spot, on the second spot, and so on
SeedPoint(k) == IF k % 3 = 1 THEN Vec(50 * ONE, 28 * ONE)
                ELSE IF k % 3 = 2 THEN VAdd(Spot(2), Vec(1, 0))
                ELSE Spot(2)
Seeded == [k \in 1..ATTRACTOR_INIT_NUM |-> SeedPoint(k)]

NoStep == [boid |-> 0, raised |-> FALSE]

\* one call of compute_background_surface: what it was given, the boids at
\* that time (none before line 236), what it returned and the list it left
Call(atts, bs, grid, left) ==
    [attractors |-> atts, boids |-> bs, grid |-> grid, left |-> left]

\* before a boid is drawn its heading is the angle drawn on line 118
NewHeading(me) == [angle |-> DrawAngle(me), valid |-> DrawAngle(me)]

NotUpdated == [k \in Boids |-> 0]

\* lines 229-239, with the boids at the given positions
Start(positions, seeds) ==
    /\ attractors = seeds
    /\ background_surface = compute_background_surface(seeds)
    /\ arrived = <<>>
    /\ calls = <<Call(seeds, <<>>, compute_background_surface(seeds), seeds)>>
    /\ updates = NotUpdated
    /\ drawn = [k \in Boids |-> NewHeading(NewBoid(positions[k], k))]
    /\ boids = [k \in Boids |-> NewBoid(positions[k], k)]
    /\ attractors_changed = TRUE
    /\ running = TRUE
    /\ events = <<>>
    /\ i = 1
    /\ pc = "loop"
    /\ tick = 0
    /\ step = NoStep
    /\ snapshot = [k \in Boids |-> NewBoid(positions[k], k)]
    /\ sampled = seeds
    /\ polled = 0

Init == Start([k \in Boids |-> Spot(k)], Seeded)

(***************************************************************************)
(* The main loop, lines 240-271.                                           *)
(***************************************************************************)
QUIT == [type |-> "QUIT"]
MOUSEBUTTONDOWN(pos) == [type |-> "MOUSEBUTTONDOWN", pos |-> pos]
MOUSEMOTION == [type |-> "MOUSEMOTION"]

\* pixels that are clicked
ClickPoints == {<<40, 12>>, <<20, 30>>}
Events == {QUIT, MOUSEMOTION} \cup {MOUSEBUTTONDOWN(p) : p \in ClickPoints}
Batches(most) == UNION {[1..n -> Events] : n \in 0..most}

\* line 240 with running true, and line 241: pygame.event.get()
LoopEnter ==
    /\ pc = "loop" /\ running /\ tick < MaxTicks
    /\ \E batch \in Batches(MaxEvents - polled) :
          /\ events' = batch
          /\ polled' = polled + Len(batch)
          /\ arrived' = arrived \o batch
    /\ pc' = "events"
    /\ UNCHANGED <<boids, attractors, background_surface, attractors_changed,
                   running, i, tick, step, snapshot, sampled, calls, updates,
                   drawn>>

\* line 240 with running false, and lines 273-274
LoopExit ==
    /\ pc = "loop" /\ ~running
    /\ pc' = "done"
    /\ UNCHANGED <<boids, attractors, background_surface, attractors_changed,
                   running, events, i, tick, step, snapshot, sampled, polled,
                   arrived, calls, updates, drawn>>

\* lines 242-243 with sys.exit() called in the branch
HandleQuitLeavingAtOnce ==
    /\ pc = "events" /\ events # <<>> /\ Head(events).type = "QUIT"
    /\ running' = FALSE
    /\ pc' = "done"
    /\ UNCHANGED <<boids, attractors, background_surface, attractors_changed,
                   events, i, tick, step, snapshot, sampled, polled, arrived,
                   calls, updates, drawn>>

\* lines 242-243
HandleQuit ==
    /\ pc = "events" /\ events # <<>> /\ Head(events).type = "QUIT"
    /\ running' = FALSE
    /\ events' = Tail(events)
    /\ UNCHANGED <<boids, attractors, background_surface, attractors_changed,
                   i, pc, tick, step, snapshot, sampled, polled, arrived,
                   calls, updates, drawn>>

\* lines 244-246 without line 247: the flag is not set
HandleMouseDownKeepingFlag ==
    /\ pc = "events" /\ events # <<>> /\ Head(events).type = "MOUSEBUTTONDOWN"
    /\ attractors' = Append(attractors, Vec(Head(events).pos[1] * ONE,
                                            Head(events).pos[2] * ONE))
    /\ events' = Tail(events)
    /\ UNCHANGED <<boids, background_surface, attractors_changed, running, i,
                   pc, tick, step, snapshot, sampled, polled, arrived, calls,
                   updates, drawn>>

\* lines 244-247 with insert(0, pos) for append(pos)
HandleMouseDownPrepending ==
    /\ pc = "events" /\ events # <<>> /\ Head(events).type = "MOUSEBUTTONDOWN"
    /\ attractors' = <<Vec(Head(events).pos[1] * ONE,
                           Head(events).pos[2] * ONE)>> \o attractors
    /\ attractors_changed' = TRUE
    /\ events' = Tail(events)
    /\ UNCHANGED <<boids, background_surface, running, i, pc, tick, step,
                   snapshot, sampled, polled, arrived, calls, updates, drawn>>

\* lines 244-247
HandleMouseDown ==
    /\ pc = "events" /\ events # <<>> /\ Head(events).type = "MOUSEBUTTONDOWN"
    /\ attractors' = Append(attractors, Vec(Head(events).pos[1] * ONE,
                                            Head(events).pos[2] * ONE))
    /\ attractors_changed' = TRUE
    /\ events' = Tail(events)
    /\ UNCHANGED <<boids, background_surface, running, i, pc, tick, step,
                   snapshot, sampled, polled, arrived, calls, updates, drawn>>

\* any other event type: neither branch of lines 242-247
HandleOther ==
    /\ pc = "events" /\ events # <<>>
    /\ Head(events).type \notin {"QUIT", "MOUSEBUTTONDOWN"}
    /\ events' = Tail(events)
    /\ UNCHANGED <<boids, attractors, background_surface, attractors_changed,
                   running, i, pc, tick, step, snapshot, sampled, polled,
                   arrived, calls, updates, drawn>>

\* lines 249-251 with a sampler that reads the boids too: every boid counts
\* as one more attractor
RecomputeSeeingBoids ==
    /\ pc = "events" /\ events = <<>> /\ attractors_changed
    /\ background_surface' =
           compute_background_surface(
               attractors \o [k \in Boids |-> boids[k].position])
    /\ attractors_changed' = FALSE
    /\ sampled' = attractors
    /\ pc' = "sweep" /\ i' = 1 /\ snapshot' = boids /\ updates' = NotUpdated
    /\ UNCHANGED <<boids, attractors, running, events, tick, step, polled,
                   arrived, drawn>>
    /\ calls' = Append(calls, Call(attractors, boids, background_surface',
                                   attractors'))

\* lines 249-251 with the flag set; the sweep starts
Recompute ==
    /\ pc = "events" /\ events = <<>> /\ attractors_changed
    /\ background_surface' = compute_background_surface(attractors)
    /\ attractors_changed' = FALSE
    /\ sampled' = attractors
    /\ pc' = "sweep" /\ i' = 1 /\ snapshot' = boids /\ updates' = NotUpdated
    /\ UNCHANGED <<boids, attractors, running, events, tick, step, polled,
                   arrived, drawn>>
    /\ calls' = Append(calls, Call(attractors, boids, background_surface',
                                   attractors'))

\* line 249 with the flag clear; the sweep starts
KeepBackground ==
    /\ pc = "events" /\ events = <<>> /\ ~attractors_changed
    /\ pc' = "sweep" /\ i' = 1 /\ snapshot' = boids /\ updates' = NotUpdated
    /\ UNCHANGED <<boids, attractors, background_surface, attractors_changed,
                   running, events, tick, step, sampled, polled, arrived,
                   calls, drawn>>

\* lines 260-262 with an append in the sweep: every updated boid leaves an
\* attractor where it is
UpdateBoidLeavingAttractor ==
    /\ pc = "sweep" /\ i \in Boids
    /\ \E r \in {Update(i, boids, attractors)} :
          /\ boids' = r.boids
          /\ step' = r.step
          /\ attractors' = Append(attractors, r.boids[i].position)
          /\ drawn' = IF r.step.raised THEN drawn
                      ELSE [drawn EXCEPT ![i] = Draw(r.boids[i], drawn[i])]
          /\ pc' = IF r.step.raised THEN "error"
                   ELSE IF i = NUM_BOIDS THEN "compose" ELSE "sweep"
    /\ i' = i + 1
    /\ updates' = [updates EXCEPT ![i] = @ + 1]
    /\ UNCHANGED <<background_surface, attractors_changed, running,
                   events, tick, snapshot, sampled, polled, arrived, calls>>

\* lines 260-262 with a sweep that steps over every second boid
UpdateBoidSkippingNext ==
    /\ pc = "sweep" /\ i \in Boids
    /\ \E r \in {Update(i, boids, attractors)} :
          /\ boids' = r.boids
          /\ step' = r.step
          /\ drawn' = IF r.step.raised THEN drawn
                      ELSE [drawn EXCEPT ![i] = Draw(r.boids[i], drawn[i])]
          /\ pc' = IF r.step.raised THEN "error"
                   ELSE IF i + 1 >= NUM_BOIDS THEN "compose" ELSE "sweep"
    /\ i' = i + 2
    /\ updates' = [updates EXCEPT ![i] = @ + 1]
    /\ UNCHANGED <<attractors, background_surface, attractors_changed, running,
                   events, tick, snapshot, sampled, polled, arrived, calls>>

\* lines 260-262: the next boid of the sweep is updated and drawn; an
\* exception in update ends the program before the draw
UpdateBoid ==
    /\ pc = "sweep" /\ i \in Boids
    /\ \E r \in {Update(i, boids, attractors)} :
          /\ boids' = r.boids
          /\ step' = r.step
          /\ drawn' = IF r.step.raised THEN drawn
                      ELSE [drawn EXCEPT ![i] = Draw(r.boids[i], drawn[i])]
          /\ pc' = IF r.step.raised THEN "error"
                   ELSE IF i = NUM_BOIDS THEN "compose" ELSE "sweep"
    /\ i' = i + 1
    /\ updates' = [updates EXCEPT ![i] = @ + 1]
    /\ UNCHANGED <<attractors, background_surface, attractors_changed, running,
                   events, tick, snapshot, sampled, polled, arrived, calls>>

\* lines 265-271: the frame is composed from the cached background
Compose ==
    /\ pc = "compose"
    /\ pc' = "loop"
    /\ tick' = tick + 1
    /\ UNCHANGED <<boids, attractors, background_surface, attractors_changed,
                   running, events, i, step, snapshot, sampled, polled,
                   arrived, calls, updates, drawn>>

Next ==
    \/ LoopEnter \/ LoopExit
    \/ HandleQuit \/ HandleMouseDown \/ HandleOther
    \/ Recompute \/ KeepBackground
    \/ UpdateBoid
    \/ Compose

Spec == Init /\ [][Next]_vars

\* lines 260-262: update and draw have bounded loops only, so the for loop
\* goes on to the next boid
SweepAdvances == pc = "sweep" /\ i \in Boids /\ i' = i + 1

\* lines 249-251: compute_background_surface is one pass over a fixed grid,
\* so the flag is cleared
BackgroundRefreshed ==
    /\ pc = "events" /\ events = <<>> /\ attractors_changed
    /\ attractors_changed' = FALSE

\* main() is one thread and none of its calls blocks: pygame.event.get()
\* returns what is queued and clock.tick(60) only delays, so a statement that
\* can run does run. The two steps that call into the boids and the sampler
\* are named by the variable they advance.
FairSpec ==
    /\ Spec
    /\ WF_vars(LoopEnter \/ LoopExit \/ HandleQuit \/ HandleMouseDown
                  \/ HandleOther \/ KeepBackground \/ Compose)
    /\ WF_i(SweepAdvances)
    /\ WF_attractors_changed(BackgroundRefreshed)

(***************************************************************************)
(* Boid.update on drawn inputs: a sweep of the first tick, the boids       *)
(* anywhere on the spots, the events drained and the background computed.  *)
(***************************************************************************)
\* two seeded attractors below the third spot, 1.70 and 1.70 away to its
\* left and right: their pulls on a boid there sum to about (0.6, -4.8)
BelowThirdSpot(k) ==
    IF k = 1 THEN VAdd(Spot(3), Vec(RDiv(-80 * ONE, 100), RDiv(-150 * ONE, 100)))
    ELSE VAdd(Spot(3), Vec(RDiv(115 * ONE, 100), RDiv(-125 * ONE, 100)))

SeedsBelowThirdSpot ==
    {seeds \in {[k \in 1..ATTRACTOR_INIT_NUM |-> BelowThirdSpot(k)]} :
        \A k \in 1..ATTRACTOR_INIT_NUM : InSeedArea(seeds[k])}

InitUpdate ==
    \E positions \in [Boids -> Spots],
       seeds \in SeedLists \cup SeedsBelowThirdSpot :
        /\ attractors = seeds
        /\ background_surface = compute_background_surface(seeds)
        /\ arrived = <<>>
        /\ calls = <<Call(seeds, <<>>, background_surface, seeds),
                     Call(seeds, [k \in Boids |-> NewBoid(positions[k], k)],
                          background_surface, seeds)>>
        /\ updates = NotUpdated
        /\ drawn = [k \in Boids |-> NewHeading(NewBoid(positions[k], k))]
        /\ boids = [k \in Boids |-> NewBoid(positions[k], k)]
        /\ attractors_changed = FALSE
        /\ running = TRUE
        /\ events = <<>>
        /\ i = 1
        /\ pc = "sweep"
        /\ tick = 0
        /\ step = NoStep
        /\ snapshot = [k \in Boids |-> NewBoid(positions[k], k)]
        /\ sampled = seeds
        /\ polled = 0

NextUpdate == UpdateBoid \/ Compose

SpecUpdate == InitUpdate /\ [][NextUpdate]_vars

(***************************************************************************)
(* One sweep with the first boid drawn near the edges of the screen: on    *)
(* each axis the edge itself, both sides of each margin line, the middle   *)
(* of each margin and the middle of the screen.                            *)
(***************************************************************************)
EdgeCoordinates(extent) ==
    {c \in {0, BOUNDARY_PERCEPTION \div 2, BOUNDARY_PERCEPTION - 1,
            BOUNDARY_PERCEPTION, extent \div 2,
            extent - BOUNDARY_PERCEPTION, extent - BOUNDARY_PERCEPTION + 1,
            extent - BOUNDARY_PERCEPTION \div 2, extent} :
        c >= 0 /\ c <= extent}

EdgePositions ==
    {Vec(x, y) : x \in EdgeCoordinates(SCREEN_WIDTH * ONE),
                 y \in EdgeCoordinates(SCREEN_HEIGHT * ONE)}

\* lines 229-239 and the loop up to line 260, the boids at given positions
StartSweep(positions, seeds) ==
    /\ attractors = seeds
    /\ background_surface = compute_background_surface(seeds)
    /\ arrived = <<>>
    /\ calls = <<Call(seeds, <<>>, background_surface, seeds),
                 Call(seeds, [k \in Boids |-> NewBoid(positions[k], k)],
                      background_surface, seeds)>>
    /\ updates = NotUpdated
    /\ drawn = [k \in Boids |-> NewHeading(NewBoid(positions[k], k))]
    /\ boids = [k \in Boids |-> NewBoid(positions[k], k)]
    /\ attractors_changed = FALSE
    /\ running = TRUE
    /\ events = <<>>
    /\ i = 1
    /\ pc = "sweep"
    /\ tick = 0
    /\ step = NoStep
    /\ snapshot = [k \in Boids |-> NewBoid(positions[k], k)]
    /\ sampled = seeds
    /\ polled = 0

InitEdges ==
    \E p \in EdgePositions :
        StartSweep([k \in Boids |-> IF k = 1 THEN p ELSE Spot(k + 1)], Seeded)

SpecEdges == InitEdges /\ [][NextUpdate]_vars

(***************************************************************************)
(* The hard-wrap variant, main1.py: no acceleration, no attractors, no     *)
(* colour. Boid.update (lines 28-31) steers the velocity in apply_rules,   *)
(* moves the position by it and wraps the position in edges. The scan of   *)
(* lines 39-57 is the scan of main8.py, with the same two radii.           *)
(***************************************************************************)
MAX_SPEED_main1 == 6 * ONE
COHESION_WEIGHT_main1 == ONE \div 10
ALIGNMENT_WEIGHT_main1 == (5 * ONE) \div 100
SEPARATION_WEIGHT_main1 == 3 * ONE

\* lines 70-71
LimitSpeed_main1(velocity) ==
    IF Length(velocity) > MAX_SPEED_main1
    THEN VMul(Normalize(velocity), MAX_SPEED_main1)
    ELSE velocity

\* lines 62-67, with the offset to the centre computed: normalize() raises
\* before the velocity is touched
Steer_main1(me, scan, off) ==
    IF ~CanNormalize(off) THEN [raised |-> TRUE, velocity |-> me.velocity]
    ELSE [raised |-> FALSE,
          velocity |->
              VAdd(VAdd(VAdd(me.velocity,
                             VMul(scan.separation, SEPARATION_WEIGHT_main1)),
                        VMul(VDivInt(scan.alignment, scan.total),
                             ALIGNMENT_WEIGHT_main1)),
                   VMul(Normalize(off), COHESION_WEIGHT_main1))]

\* lines 59-67, after the scan
RulesEnd_main1(me, scan) ==
    IF scan.raised THEN [raised |-> TRUE, velocity |-> me.velocity]
    ELSE IF scan.total > 0
         THEN Steer_main1(me, scan,
                          VSub(VDivInt(scan.cohesion, scan.total), me.position))
    ELSE [raised |-> FALSE, velocity |-> me.velocity]

\* lines 69-71, unless an exception ended the call
Limited_main1(steered) ==
    IF steered.raised THEN steered
    ELSE [raised |-> FALSE, velocity |-> LimitSpeed_main1(steered.velocity)]

\* lines 33-71
apply_rules_main1(self, bs) ==
    Limited_main1(RulesEnd_main1(bs[self], RulesScan(RulesStart, self, bs, 1)))

\* lines 74-81 with the overshoot carried to the other side
WrapKeepingOvershoot_main1(coordinate, extent) ==
    IF coordinate > extent THEN coordinate - extent
    ELSE IF coordinate < 0 THEN extent + coordinate
    ELSE coordinate

\* lines 74-77 for x, lines 78-81 for y
Wrap_main1(coordinate, extent) ==
    IF coordinate > extent THEN 0
    ELSE IF coordinate < 0 THEN extent
    ELSE coordinate

\* lines 73-81
edges_main1(position) ==
    Vec(Wrap_main1(position.x, SCREEN_WIDTH * ONE),
        Wrap_main1(position.y, SCREEN_HEIGHT * ONE))

\* lines 30-31, with the velocity apply_rules left and the position after
\* line 30
Moved_main1(self, bs, velocity, moved) ==
    [boids |-> [bs EXCEPT ![self] = [position |-> edges_main1(moved),
                                     velocity |-> velocity]],
     step  |-> [boid |-> self, raised |-> FALSE, seen |-> Seen(bs),
                moved |-> moved]]

\* lines 29-31, with apply_rules done
AfterRules_main1(self, bs, rules) ==
    IF rules.raised
    THEN [boids |-> bs,
          step  |-> [boid |-> self, raised |-> TRUE, seen |-> Seen(bs),
                     moved |-> bs[self].position]]
    ELSE Moved_main1(self, bs, rules.velocity,
                     VAdd(bs[self].position, rules.velocity))

\* lines 28-31
update_main1(self, bs) == AfterRules_main1(self, bs, apply_rules_main1(self, bs))

\* lines 22-26: the position and the angle are drawn
NewBoid_main1(position, heading) ==
    [position |-> position, velocity |-> VMul(heading, MAX_SPEED_main1)]

\* unit vectors along the axes and along two diagonals
Headings_main1 ==
    {Vec(ONE, 0), Vec(-ONE, 0), Vec(0, ONE), Vec(0, -ONE),
     Vec((6 * ONE) \div 10, (8 * ONE) \div 10),
     Vec(-((6 * ONE) \div 10), -((8 * ONE) \div 10)),
     Vec((8 * ONE) \div 10, -((6 * ONE) \div 10)),
     Vec(-((8 * ONE) \div 10), (6 * ONE) \div 10)}

\* places of the first boid: less than, and exactly, one step from an edge
\* or a corner
WrapPlaces_main1 ==
    {Vec(57 * ONE, 20 * ONE), Vec(3 * ONE, 20 * ONE), Vec(30 * ONE, 37 * ONE),
     Vec(30 * ONE, 3 * ONE), Vec(54 * ONE, 20 * ONE), Vec(58 * ONE, 38 * ONE),
     Vec(2 * ONE, 2 * ONE)}

\* the places and headings drawn for the boids after the first
Place_main1(k) == Vec(((20 + 25 * (k - 2)) % 55) * ONE,
                      ((10 + 20 * (k - 2)) % 35) * ONE)
Heading_main1(k) == IF k % 3 = 2 THEN Vec(0, -ONE)
                    ELSE IF k % 3 = 0 THEN Vec(ONE, 0)
                    ELSE Vec(-ONE, 0)

\* lines 95-102; the variables of main8.py's attractors, background and
\* events have nothing to hold
InitWrap ==
    \E place \in WrapPlaces_main1, heading \in Headings_main1 :
        /\ boids = [k \in Boids |->
                       IF k = 1 THEN NewBoid_main1(place, heading)
                       ELSE NewBoid_main1(Place_main1(k), Heading_main1(k))]
        /\ snapshot = boids
        /\ attractors = <<>>
        /\ background_surface = <<>>
        /\ attractors_changed = FALSE
        /\ sampled = <<>>
        /\ arrived = <<>>
        /\ calls = <<>>
        /\ drawn = <<>>
        /\ events = <<>>
        /\ polled = 0
        /\ updates = NotUpdated
        /\ running = TRUE
        /\ i = 1
        /\ pc = "loop"
        /\ tick = 0
        /\ step = NoStep

\* lines 103-108: the events are drained, a QUIT among them clears the
\* flag, and the sweep starts
Poll_main1 ==
    /\ pc = "loop" /\ running /\ tick < MaxTicks
    /\ \E quit \in BOOLEAN : running' = ~quit
    /\ pc' = "sweep" /\ i' = 1 /\ snapshot' = boids /\ updates' = NotUpdated
    /\ UNCHANGED <<boids, attractors, background_surface, attractors_changed,
                   events, tick, step, sampled, polled, arrived, calls, drawn>>

\* lines 110-112: the next boid of the sweep is updated
UpdateBoid_main1 ==
    /\ pc = "sweep" /\ i \in Boids
    /\ \E r \in {update_main1(i, boids)} :
          /\ boids' = r.boids
          /\ step' = r.step
          /\ pc' = IF r.step.raised THEN "error"
                   ELSE IF i = NUM_BOIDS THEN "compose" ELSE "sweep"
    /\ i' = i + 1
    /\ updates' = [updates EXCEPT ![i] = @ + 1]
    /\ UNCHANGED <<attractors, background_surface, attractors_changed, running,
                   events, tick, snapshot, sampled, polled, arrived, calls,
                   drawn>>

\* lines 114-115: the frame is shown
Flip_main1 ==
    /\ pc = "compose"
    /\ pc' = "loop"
    /\ tick' = tick + 1
    /\ UNCHANGED <<boids, attractors, background_surface, attractors_changed,
                   running, events, i, step, snapshot, sampled, polled,
                   arrived, calls, updates, drawn>>

\* line 103 with running false, and lines 117-118
Exit_main1 ==
    /\ pc = "loop" /\ ~running
    /\ pc' = "done"
    /\ UNCHANGED <<boids, attractors, background_surface, attractors_changed,
                   running, events, i, tick, step, snapshot, sampled, polled,
                   arrived, calls, updates, drawn>>

NextWrap == Poll_main1 \/ UpdateBoid_main1 \/ Flip_main1 \/ Exit_main1

SpecWrap == InitWrap /\ [][NextWrap]_vars

(***************************************************************************)
(* compute_background_surface on drawn inputs: main() at line 229, the     *)
(* attractor list made (empty with ATTRACTOR_INIT off) and neither the     *)
(* background nor the boids yet.                                           *)
(***************************************************************************)
\* the grid point in the middle of the grid: an attractor may lie on it
MiddleOfGrid == Vec(Linspace(SCREEN_WIDTH, bg_width, bg_width \div 2),
                    Linspace(SCREEN_HEIGHT, bg_height, bg_height \div 2))

SamplerPoints ==
    {p \in SeedPoints \cup Spots \cup
            {MiddleOfGrid,
             Vec(ATTRACTOR_INIT_MARGIN * ONE, ATTRACTOR_INIT_MARGIN * ONE),
             Vec((SCREEN_WIDTH - ATTRACTOR_INIT_MARGIN) * ONE,
                 ATTRACTOR_INIT_MARGIN * ONE)} : InSeedArea(p)}

SamplerLists == UNION {[1..n -> SamplerPoints] : n \in 0..ATTRACTOR_INIT_NUM}

InitSampler ==
    /\ attractors \in SamplerLists
    /\ background_surface = <<>>
    /\ boids = <<>>
    /\ attractors_changed = FALSE
    /\ running = FALSE
    /\ events = <<>>
    /\ i = 1
    /\ pc = "start"
    /\ tick = 0
    /\ step = NoStep
    /\ snapshot = <<>>
    /\ sampled = <<>>
    /\ polled = 0
    /\ arrived = <<>>
    /\ calls = <<>>
    /\ updates = <<>>
    /\ drawn = <<>>

\* line 230
FirstBackground ==
    /\ pc = "start"
    /\ background_surface' = compute_background_surface(attractors)
    /\ sampled' = attractors
    /\ pc' = "sampled"
    /\ UNCHANGED <<boids, attractors, attractors_changed, running, events, i,
                   tick, step, snapshot, polled, arrived, updates, drawn>>
    /\ calls' = Append(calls, Call(attractors, boids, background_surface',
                                   attractors'))

NextSampler == FirstBackground

SpecSampler == InitSampler /\ [][NextSampler]_vars

(***************************************************************************)
(* Properties. A step is the record of the last Boid.update call; Me is    *)
(* the subject as apply_rules saw it and the others are as it saw them.    *)
(***************************************************************************)
\* rounding of the fixed-point arithmetic allowed on a magnitude m
Slack(m) == RDiv(m, ONE) + 2

Stepped == step.boid # 0
Me == step.seen[step.boid]
Others == Boids \ {step.boid}
Gap(j) == DistanceTo(Me.position, step.seen[j].position)
Perceived == {j \in Others : Gap(j) < PERCEPTION_RADIUS}

RECURSIVE SumOfPositions(_)
SumOfPositions(S) ==
    IF S = {} THEN Zero
    ELSE LET j == CHOOSE k \in S : TRUE
         IN  VAdd(step.seen[j].position, SumOfPositions(S \ {j}))

\* C1: after every update that completes, the velocity that moved the
\* position and the velocity stored at the end are no faster than MAX_SPEED.
C1_SpeedNeverAboveMax ==
    (Stepped /\ ~step.raised) =>
        /\ Length(step.moved_by) <= MAX_SPEED + Slack(MAX_SPEED)
        /\ Length(boids[step.boid].velocity) <= MAX_SPEED + Slack(MAX_SPEED)

\* C2: the positions and velocities an update reads of the other boids are
\* those the boids had when the sweep of this tick started.
C2_SweepReadsSnapshot ==
    Stepped =>
        \A j \in Others :
            /\ step.seen[j].position = snapshot[j].position
            /\ step.seen[j].velocity = snapshot[j].velocity

\* C3: with another boid at exactly the subject's position, apply_rules
\* completes without raising.
C3_CoincidentBoidsDoNotRaise ==
    (Stepped /\ \E j \in Others : step.seen[j].position = Me.position) =>
        ~step.rules.raised

\* C4: with at least one neighbor, none of them at the subject's position,
\* and the average neighbor position equal to the subject's position,
\* apply_rules completes and its cohesion term is the zero vector.
C4_CentredBoidHasZeroCohesion ==
    (/\ Stepped
     /\ Perceived # {}
     /\ \A j \in Perceived : Gap(j) > 0
     /\ SumOfPositions(Perceived)
            = Vec(Cardinality(Perceived) * Me.position.x,
                  Cardinality(Perceived) * Me.position.y)) =>
        /\ ~step.rules.raised
        /\ step.rules.cohesion = Zero

\* C5: what each attractor adds to the acceleration is no larger than
\* ATTRACTOR_FORCE_MAX at any distance d > 0, and is the zero vector at
\* d = 0; apply_attractors does not raise.
C5_AttractorPullIsClamped ==
    (Stepped /\ ~step.raised) =>
        /\ Len(step.pulls) = Len(step.attractors)
        /\ \A k \in 1..Len(step.attractors) :
              IF DistanceTo(step.attractors[k], Me.position) > 0
              THEN Length(step.pulls[k])
                       <= ATTRACTOR_FORCE_MAX + Slack(ATTRACTOR_FORCE_MAX)
              ELSE step.pulls[k] = Zero

\* C5 witness: one update met an attractor on the boid's own position and
\* one so near that the unclamped magnitude is above ATTRACTOR_FORCE_MAX.
C5_Witness ==
    /\ Stepped /\ ~step.raised
    /\ \E k \in 1..Len(step.attractors) :
          DistanceTo(step.attractors[k], Me.position) = 0
    /\ \E k \in 1..Len(step.attractors) :
          /\ DistanceTo(step.attractors[k], Me.position) > 0
          /\ ATTRACTOR_FORCE * ONE * ONE >
                 ATTRACTOR_FORCE_MAX * MASS_EQUIVALENT
                     * DistanceTo(step.attractors[k], Me.position)
          /\ Length(step.pulls[k]) >= ATTRACTOR_FORCE_MAX - Slack(ATTRACTOR_FORCE_MAX)

\* C6: with no other boid within PERCEPTION_RADIUS, apply_rules leaves the
\* acceleration (zero when it is called) as it is.
C6_NoNeighborNoForce ==
    (Stepped /\ \A j \in Others : Gap(j) >= PERCEPTION_RADIUS) =>
        /\ ~step.rules.raised
        /\ step.rules.total = 0
        /\ step.rules.acceleration = Zero

\* C6 witness: a boid with no other boid within the radius was updated.
C6_Witness ==
    /\ Stepped
    /\ \A j \in Others : Gap(j) >= PERCEPTION_RADIUS
    /\ \E j \in Others : Gap(j) < SEPARATION_RADIUS

\* C7: every other boid at a distance above 0 and below SEPARATION_RADIUS
\* pushes the subject away from itself: its separation contribution has a
\* positive dot product with subject.position - other.position.
C7_SeparationPointsAway ==
    (Stepped /\ ~step.rules.raised) =>
        \A j \in Others :
            (Gap(j) > 0 /\ Gap(j) < SEPARATION_RADIUS) =>
                Dot(VMul(step.rules.push[j],
                         boids[step.boid].separation_weight),
                    VSub(Me.position, step.seen[j].position)) > 0

\* C8: with exactly one neighbor, at a distance above 0, the cohesion term
\* is cohesion_weight times the unit vector from the subject to it.
C8_SingleNeighborCohesion ==
    (Stepped /\ Cardinality(Perceived) = 1) =>
        \A j \in Perceived :
            Gap(j) > 0 =>
                /\ ~step.rules.raised
                /\ step.rules.cohesion =
                       VMul(Normalize(VSub(step.seen[j].position, Me.position)),
                            boids[step.boid].cohesion_weight)

\* C8 witness: a boid with exactly one neighbor, not on its position, was
\* updated, and a cohesion term was added.
C8_Witness ==
    /\ Stepped /\ Cardinality(Perceived) = 1
    /\ \A j \in Perceived : Gap(j) > 0
    /\ step.rules.cohesion # Zero

\* C9: the background is recomputed only when the attractor list differs
\* from the list the last computation was given.
C9_RecomputeOnlyAfterChange ==
    (pc = "events" /\ events = <<>> /\ attractors_changed) =>
        attractors # sampled

\* C10: when the frame is composed the cached background is the background
\* of the attractor list as it is then.
C10_BackgroundCurrentAtCompose ==
    pc = "compose" =>
        background_surface = compute_background_surface(attractors)

\* C10 witness: a frame is composed in a tick after the first, with an
\* attractor placed by a click in the list.
C10_Witness ==
    /\ pc = "compose" /\ tick >= 1
    /\ Len(attractors) > ATTRACTOR_INIT_NUM

Rows == 1..bg_height
Cols == 1..bg_width

\* C12: every cell of a computed grid is within 0..255, and with an empty
\* attractor list every cell is 0.
C12_BrightnessRange ==
    pc = "sampled" =>
        \A row \in Rows, col \in Cols :
            /\ background_surface[row][col] \in 0..255
            /\ attractors = <<>> => background_surface[row][col] = 0

\* C12 witness: the grid of the empty list was computed.
C12_Witness ==
    /\ pc = "sampled" /\ attractors = <<>>
    /\ DOMAIN background_surface = Rows

\* the events the loop of lines 241-247 has gone through so far
Handled == SubSeq(arrived, 1, Len(arrived) - Len(events))

\* the points of the MOUSEBUTTONDOWN events of a sequence, in its order
RECURSIVE Clicked(_)
Clicked(es) ==
    IF es = <<>> THEN <<>>
    ELSE (IF Head(es).type = "MOUSEBUTTONDOWN"
          THEN <<Vec(Head(es).pos[1] * ONE, Head(es).pos[2] * ONE)>>
          ELSE <<>>) \o Clicked(Tail(es))

\* C13: at any time the attractor list is the seeded batch followed by the
\* points of the MOUSEBUTTONDOWN events handled so far, one per event, in
\* the order the events arrived.
C13_AttractorsAppendOnly == attractors = Seeded \o Clicked(Handled)

\* C13 witness: two clicks on different points were handled.
C13_Witness ==
    /\ Len(attractors) >= ATTRACTOR_INIT_NUM + 2
    /\ attractors[Len(attractors)] # attractors[Len(attractors) - 1]
    /\ Len(Clicked(Handled)) >= 2

\* the sweep of a tick has started and the tick is not over
InSweep == pc \in {"sweep", "compose", "error"}

\* C14: from the start of the sweep to the end of the tick the attractor
\* list is the list the background was last computed from, the
\* computation left it as it was, and the boid updated last was given
\* that same list: nothing is appended outside the event loop.
C14_AppendsOnlyWhileDraining ==
    InSweep =>
        /\ attractors = sampled
        /\ calls[Len(calls)].attractors = sampled
        /\ calls[Len(calls)].left = sampled
        /\ (i > 1 => step.attractors = sampled)

\* C14 witness: in a tick after the first, whose events held a click, the
\* background was computed and a boid has been updated.
C14_Witness ==
    /\ pc = "sweep" /\ i > 1 /\ tick >= 1
    /\ Len(step.attractors) > ATTRACTOR_INIT_NUM
    /\ Len(calls) >= 3

\* C15: the list always holds NUM_BOIDS boids; within a tick no boid is
\* updated twice, the sweep updates them in the order of the list, and when
\* the frame of a tick is composed, and until the next sweep starts, every
\* boid has been updated exactly once in that tick.
C15_PopulationFixed ==
    /\ DOMAIN boids = Boids
    /\ \A k \in Boids : updates[k] <= 1
    /\ pc = "sweep" => \A k \in Boids : updates[k] = IF k < i THEN 1 ELSE 0
    /\ (pc = "compose" \/ (pc \in {"loop", "events", "done"} /\ tick > 0)) =>
           \A k \in Boids : updates[k] = 1

\* C15 witness: the sweep of a tick after the first is complete.
C15_Witness ==
    /\ pc = "compose" /\ tick >= 1
    /\ \A k \in Boids : updates[k] = 1 /\ boids[k].position # snapshot[k].position

\* the speed a relaxation of the given speed arrives at
RelaxedSpeed(speed) ==
    speed + FMul(START_SPEED - speed, SPEED_ADJUSTMENT_FACTOR)

\* C16: in every update that completes, whether the cap fired or not, the
\* speed the boid moves with is current + (START_SPEED - current) *
\* SPEED_ADJUSTMENT_FACTOR, where current is the speed of the velocity the
\* relaxation is applied to (the capped velocity when the cap fired), and
\* the direction of that velocity is kept.
C16_RelaxationFromCurrentSpeed ==
    (Stepped /\ ~step.raised) =>
        /\ Abs(Length(step.moved_by) - RelaxedSpeed(Length(step.capped)))
               <= Slack(MAX_SPEED)
        /\ Dot(step.moved_by, step.capped) >= 0

\* ATTRACTOR_FORCE * d^(-1) / MASS_EQUIVALENT clamped to ATTRACTOR_FORCE_MAX,
\* from one division: the configured exponent is -1
ExpectedPull(d) ==
    Min(RDiv(ATTRACTOR_FORCE * ONE * ONE, d * MASS_EQUIVALENT),
        ATTRACTOR_FORCE_MAX)

\* rounding allowed on a pull of magnitude m: that of the magnitude and that
\* of the power of the distance, scaled by the force
PullSlack(m) == Slack(m) + ATTRACTOR_FORCE

Cross(u, v) == u.x * v.y - u.y * v.x

\* C17: what an attractor at a distance d > 0 adds to the acceleration has
\* the magnitude min(ATTRACTOR_FORCE * d^ATTRACTOR_FORCE_DISTANCE_EXP /
\* MASS_EQUIVALENT, ATTRACTOR_FORCE_MAX) and points from the boid to the
\* attractor.
C17_AttractorPullFormula ==
    (Stepped /\ ~step.raised /\ ATTRACTOR_FORCE_DISTANCE_EXP = -1) =>
        \A k \in 1..Len(step.attractors) :
            LET direction == VSub(step.attractors[k], Me.position)
                d == Length(direction)
            IN  d > 0 =>
                  /\ Abs(Length(step.pulls[k]) - ExpectedPull(d))
                         <= PullSlack(ExpectedPull(d))
                  /\ Dot(step.pulls[k], direction) > 0
                  /\ Abs(Cross(step.pulls[k], direction))
                         <= d * Slack(ExpectedPull(d))

\* C17 witness: one update met an attractor far enough for the magnitude
\* to be below the clamp and not along an axis from the boid.
C17_Witness ==
    /\ Stepped /\ ~step.raised
    /\ \E k \in 1..Len(step.attractors) :
           LET direction == VSub(step.attractors[k], Me.position)
           IN  /\ direction.x # 0 /\ direction.y # 0
               /\ ExpectedPull(Length(direction)) < ATTRACTOR_FORCE_MAX
               /\ step.pulls[k] # Zero

\* the red channel before clamp_colors: get_color of the cubed acceleration
\* factor of the boid updated last
RedBeforeClamp ==
    get_color(BASE_COLOR,
              Cube(3 * FDiv(FDiv(Length(step.acceleration),
                                 ACCELERATION_UPPER_EXPECTED), MAX_SPEED)))

\* C18: after every update that completes, each of the three channels of
\* the boid's color is an integer within 0..255.
C18_ColorInRange ==
    (Stepped /\ ~step.raised) =>
        \A c \in 1..3 : boids[step.boid].color[c] \in 0..255

\* C18 witness: an update with neighbors in which the red channel was above
\* 255 before the clamp.
C18_Witness ==
    /\ Stepped /\ ~step.raised
    /\ Perceived # {}
    /\ RedBeforeClamp > 255
    /\ boids[step.boid].color[1] = 255

\* C19: the angle a boid is drawn with is atan2(velocity.y, velocity.x),
\* and when its velocity is zero at the draw it is the last angle that was
\* computed from a velocity other than zero.
C19_HeadingHeldAtZeroVelocity ==
    (Stepped /\ ~step.raised) =>
        drawn[step.boid].angle =
            IF boids[step.boid].velocity # Zero
            THEN Atan2(boids[step.boid].velocity.y, boids[step.boid].velocity.x)
            ELSE drawn[step.boid].valid

\* C20: SEPARATION_RADIUS is at most PERCEPTION_RADIUS; in an update a boid
\* at a distance from SEPARATION_RADIUS up to PERCEPTION_RADIUS is counted
\* as a neighbor and adds nothing to the separation, and a boid at
\* PERCEPTION_RADIUS or farther adds nothing to the separation.
C20_SeparationWithinPerception ==
    (Stepped /\ ~step.rules.raised) =>
        /\ SEPARATION_RADIUS <= PERCEPTION_RADIUS
        /\ \A j \in Others :
               /\ (Gap(j) >= SEPARATION_RADIUS /\ Gap(j) < PERCEPTION_RADIUS) =>
                      (j \in Perceived /\ step.rules.push[j] = Zero)
               /\ Gap(j) >= PERCEPTION_RADIUS => step.rules.push[j] = Zero

\* what apply_attractors added in the step: the acceleration less what the
\* rules, the edges and the noise added
AttractorContribution ==
    VSub(VSub(VSub(step.acceleration, step.rules.acceleration), step.edges),
         step.noise)

Permuted(list, perm) == [k \in 1..Len(list) |-> list[perm[k]]]

\* C21: for every permutation of the attractor list apply_attractors adds
\* the vector it added in the step.
C21_AttractorOrderIrrelevant ==
    (Stepped /\ ~step.raised) =>
        \A perm \in Permutations(1..Len(step.attractors)) :
            ApplyAttractors(Zero, Me.position,
                            Permuted(step.attractors, perm), 1)
                = AttractorContribution

\* C21 witness: an update met two attractors whose pulls differ and are both
\* other than zero, added to an acceleration other than zero.
C21_Witness ==
    /\ Stepped /\ ~step.raised
    /\ Len(step.pulls) >= 2
    /\ step.pulls[1] # step.pulls[2]
    /\ step.pulls[1] # Zero /\ step.pulls[2] # Zero
    /\ VSub(step.acceleration, AttractorContribution) # Zero

\* the force avoid_edges gives at the given depth into a margin
Inward(depth) == RDiv(TURN_FACTOR * depth, 10000)

\* the force on one axis is zero outside both margins and otherwise the
\* inward force of one edge whose margin the coordinate is in
AxisForceAsSpecified(coordinate, extent, force) ==
    LET low  == coordinate < BOUNDARY_PERCEPTION
        high == extent - coordinate < BOUNDARY_PERCEPTION
    IN  /\ (~low /\ ~high) => force = 0
        /\ (low \/ high) =>
              \/ low /\ force = Inward(BOUNDARY_PERCEPTION - coordinate)
              \/ high /\ force = -Inward(BOUNDARY_PERCEPTION
                                            - (extent - coordinate))

\* C22: on each axis avoid_edges adds nothing outside the margins and inside
\* a margin TURN_FACTOR times the depth, inward, from one edge only.
C22_EdgeForcePerAxis ==
    (Stepped /\ ~step.raised) =>
        /\ AxisForceAsSpecified(Me.position.x, SCREEN_WIDTH * ONE,
                                step.edges.x)
        /\ AxisForceAsSpecified(Me.position.y, SCREEN_HEIGHT * ONE,
                                step.edges.y)

\* C22 witness: an update of a boid inside the margin of the high edge of
\* the x axis and outside the margin of the low edge, pushed back.
C22_Witness ==
    /\ Stepped /\ ~step.raised
    /\ Me.position.x >= BOUNDARY_PERCEPTION
    /\ SCREEN_WIDTH * ONE - Me.position.x < BOUNDARY_PERCEPTION
    /\ step.edges.x < 0

RECURSIVE SumOfVectors(_, _)
SumOfVectors(list, k) ==
    IF k > Len(list) THEN Zero ELSE VAdd(list[k], SumOfVectors(list, k + 1))

\* the four contributions of one update: the three rule terms, the edge
\* force, the noise and the pulls of the attractors
FourForces ==
    VAdd(VAdd(VAdd(VAdd(step.rules.separation, step.rules.alignment),
                   step.rules.cohesion),
              VAdd(step.edges, step.noise)),
         SumOfVectors(step.pulls, 1))

\* C23: the acceleration an update applies and leaves in the boid is the sum
\* of the four forces computed in that update, whatever acceleration the
\* boid held when the update began.
C23_AccelerationStartsFromZero ==
    (Stepped /\ ~step.raised) =>
        /\ step.acceleration = FourForces
        /\ boids[step.boid].acceleration = FourForces
        /\ step.speed = Length(VAdd(Me.velocity,
                                    VDivInt(FourForces, MASS_EQUIVALENT)))

\* C23 witness: an update of a boid that held an acceleration other than
\* zero from the tick before, and whose forces are not all zero.
C23_Witness ==
    /\ Stepped /\ ~step.raised
    /\ tick >= 1
    /\ snapshot[step.boid].acceleration # Zero
    /\ FourForces # Zero
    /\ FourForces # snapshot[step.boid].acceleration

\* C24: the position advances by the relaxed velocity of the update, not
\* damped, and the velocity kept for the next tick is 0.95 times that
\* velocity: along it and no longer than it.
C24_DampingAfterMove ==
    (Stepped /\ ~step.raised) =>
        /\ boids[step.boid].position = VAdd(Me.position, step.moved_by)
        /\ boids[step.boid].velocity
               = VMul(step.moved_by, (95 * ONE) \div 100)
        /\ boids[step.boid].velocity.x * step.moved_by.x >= 0
        /\ boids[step.boid].velocity.y * step.moved_by.y >= 0
        /\ Length(boids[step.boid].velocity) <= Length(step.moved_by)
        /\ Length(step.moved_by) >= ONE =>
               Length(boids[step.boid].velocity) < Length(step.moved_by)

\* C24 witness: an update moved the boid by a velocity of length 1 or more
\* with both components other than zero.
C24_Witness ==
    /\ Stepped /\ ~step.raised
    /\ Length(step.moved_by) >= ONE
    /\ step.moved_by.x # 0 /\ step.moved_by.y # 0
    /\ boids[step.boid].position # Me.position

\* colours a run may hold instead of its own
Palette == {<<0, 0, 0>>, <<255, 255, 255>>, <<50, 200, 129>>}

Recolored(bs, colors) == [k \in Boids |-> [bs[k] EXCEPT !.color = colors[k]]]

\* the colourings that differ from the present one in one boid or in all
Recolorings ==
    {[k \in Boids |-> IF k \in S THEN c ELSE boids[k].color] :
        c \in Palette, S \in {{k} : k \in Boids} \cup {Boids}}

\* everything of the boids but their colours
Physics(bs) == [k \in Boids |-> [bs[k] EXCEPT !.color = <<0, 0, 0>>]]

\* the next update gives the same boids, colours aside, and the same colour
\* to its boid, when it runs on the recoloured list
SameUpdate(own, other) ==
    /\ Physics(own.boids) = Physics(other.boids)
    /\ own.step.raised = other.step.raised
    /\ ~own.step.raised => own.boids[i].color = other.boids[i].color

\* C25: whatever colours the boids hold, the next update leaves the same
\* positions, velocities, accelerations, weights and noise offsets, and
\* overwrites the colour of its boid with the same value; so two runs that
\* differ in colours only agree on all of these after every update.
C25_ColorNeverReadByPhysics ==
    (pc = "sweep" /\ i \in Boids) =>
        \E own \in {Update(i, boids, attractors)} :
            \A colors \in Recolorings :
                SameUpdate(own, Update(i, Recolored(boids, colors), attractors))

\* C25 witness: a boid about to be updated holds the colour the update of
\* the tick before gave it, another boid holds a different one, and the
\* update returns.
C25_Witness ==
    /\ pc = "sweep" /\ i \in Boids
    /\ tick >= 1
    /\ boids[i].color # <<0, 0, 0>>
    /\ \E k \in Boids : boids[k].color # boids[i].color
    /\ ~Update(i, boids, attractors).step.raised

\* the sum of term[j] over the boids j of S
RECURSIVE SumOfTerms(_, _)
SumOfTerms(term, S) ==
    IF S = {} THEN Zero
    ELSE LET j == CHOOSE k \in S : TRUE
         IN  VAdd(term[j], SumOfTerms(term, S \ {j}))

\* the repulsion of each neighbor: the unit vector away from it over the
\* distance to it
Repulsions ==
    [j \in Boids |->
        IF j \in Perceived /\ Gap(j) > 0
        THEN VDiv(Normalize(VSub(Me.position, step.seen[j].position)), Gap(j))
        ELSE Zero]

Velocities == [j \in Boids |-> step.seen[j].velocity]

Positions == [j \in Boids |-> step.seen[j].position]

\* the three terms as specified, for a neighbor set that is not empty
SeparationAsSpecified ==
    VMul(SumOfTerms(Repulsions, Perceived),
         boids[step.boid].separation_weight)

AlignmentAsSpecified ==
    VMul(VDivInt(SumOfTerms(Velocities, Perceived), Cardinality(Perceived)),
         boids[step.boid].alignment_weight)

CentreOffset ==
    VSub(VDivInt(SumOfTerms(Positions, Perceived), Cardinality(Perceived)),
         Me.position)

\* C26: when apply_rules returns with total > 0 it has added to the
\* acceleration the sum of the neighbors' repulsions times
\* separation_weight, the average of their velocities times
\* alignment_weight, and the unit vector toward the average of their
\* positions times cohesion_weight, all over the same neighbor set.
C26_RulesFormula ==
    (Stepped /\ ~step.rules.raised /\ step.rules.total > 0) =>
        /\ step.rules.total = Cardinality(Perceived)
        /\ step.rules.separation = SeparationAsSpecified
        /\ step.rules.alignment = AlignmentAsSpecified
        /\ step.rules.cohesion = VMul(Normalize(CentreOffset),
                                      boids[step.boid].cohesion_weight)
        /\ step.rules.acceleration =
               VAdd(VAdd(step.rules.separation, step.rules.alignment),
                    step.rules.cohesion)

\* C26 witness: apply_rules returned with two neighbors whose repulsions do
\* not cancel, and added all three terms.
C26_Witness ==
    /\ Stepped /\ ~step.rules.raised
    /\ step.rules.total >= 2
    /\ step.rules.separation # Zero
    /\ step.rules.alignment # Zero
    /\ step.rules.cohesion # Zero

\* the other boids on the subject's own position
Coincident == {j \in Others : step.seen[j].position = Me.position}

\* the other boids the scan of apply_rules reaches: it ends at the first
\* boid that makes it raise, which only a coincident boid does
Reached == {j \in Others : \A k \in Coincident : j <= k}

\* what each other boid within the radius of the new position adds to
\* proximity in update_color
Closeness ==
    [j \in Boids |->
        LET distance == DistanceTo(boids[step.boid].position,
                                   step.seen[j].position)
        IN  IF j \in Others /\ distance < PERCEPTION_RADIUS
            THEN PERCEPTION_RADIUS - distance ELSE 0]

RECURSIVE SumOfNumbers(_, _)
SumOfNumbers(term, S) ==
    IF S = {} THEN 0
    ELSE LET j == CHOOSE k \in S : TRUE
         IN  term[j] + SumOfNumbers(term, S \ {j})

BlueOfOthers ==
    clamp_color(get_color(BASE_COLOR,
        RDiv(FDiv(SumOfNumbers(Closeness, Others), PERCEPTION_RADIUS),
             PROXIMITY_NORMALIZATION)))

\* C27: the scan of apply_rules never tests the subject and tests every
\* other boid it reaches, one on the subject's position included; total
\* counts the others within PERCEPTION_RADIUS and is at most NUM_BOIDS - 1;
\* the blue channel update_color sets is that of the others' closeness
\* alone.
C27_SelfExcludedOthersIncluded ==
    Stepped =>
        /\ step.boid \notin step.rules.scanned
        /\ step.rules.scanned = Reached
        /\ step.rules.total <= NUM_BOIDS - 1
        /\ Coincident = {} =>
               /\ step.rules.scanned = Others
               /\ step.rules.total = Cardinality(Perceived)
        /\ ~step.raised => boids[step.boid].color[3] = BlueOfOthers

\* C27 witness: an update whose scan tested another boid on the subject's
\* own position.
C27_Witness ==
    /\ Stepped
    /\ Coincident # {}
    /\ Coincident \cap step.rules.scanned # {}

\* the rule weights of a boid
Weights(me) == <<me.cohesion_weight, me.alignment_weight, me.separation_weight>>

\* C28: the update of the boid the sweep is at leaves every other boid as it
\* was, leaves the boid's own three rule weights, and leaves the length of
\* the boid list and the attractor list as they were.
C28_UpdateChangesOwnFieldsOnly ==
    [][(pc = "sweep" /\ i \in Boids) =>
          /\ \A k \in Boids \ {i} : boids'[k] = boids[k]
          /\ Weights(boids'[i]) = Weights(boids[i])
          /\ DOMAIN boids' = DOMAIN boids
          /\ attractors' = attractors]_vars

\* C28 witness: an update returned having changed the acceleration, the
\* velocity, the position, the colour and both noise offsets of its boid.
C28_Witness ==
    /\ Stepped /\ ~step.raised
    /\ updates[step.boid] = 1
    /\ boids[step.boid].acceleration # snapshot[step.boid].acceleration
    /\ boids[step.boid].velocity # snapshot[step.boid].velocity
    /\ boids[step.boid].position # snapshot[step.boid].position
    /\ boids[step.boid].color # snapshot[step.boid].color
    /\ boids[step.boid].noise_offset_x # snapshot[step.boid].noise_offset_x
    /\ boids[step.boid].noise_offset_y # snapshot[step.boid].noise_offset_y
    /\ Weights(boids[step.boid]) = Weights(snapshot[step.boid])

\* a QUIT event is among the events of a sequence
QuitIn(es) == \E k \in 1..Len(es) : es[k].type = "QUIT"

\* the loop has exited: a QUIT was handled, every event that arrived was
\* handled, the clicks after the QUIT too, and the last tick updated every
\* boid once
ExitedAfterWholeTick ==
    pc = "done" =>
        /\ ~running
        /\ QuitIn(arrived)
        /\ events = <<>>
        /\ attractors = Seeded \o Clicked(arrived)
        /\ sampled = attractors
        /\ tick >= 1
        /\ \A k \in Boids : updates[k] = 1

\* C29: handling a QUIT only clears the flag and goes on with the batch;
\* the loop is left only with the flag cleared and the tick complete, it is
\* left at the next test of the flag, and nothing runs after that; from the
\* QUIT the exit is reached; and while the flag is set every tick that
\* starts is completed and another one may start.
C29_QuitEndsAfterTheTick ==
    /\ []ExitedAfterWholeTick
    /\ [](running => pc # "done")
    /\ [][(running /\ ~running') =>
             (pc = "events" /\ pc' = "events" /\ events' = Tail(events))]_vars
    /\ [][(pc = "loop" /\ ~running) => pc' = "done"]_vars
    /\ [][pc # "done"]_vars
    /\ (~running ~> pc = "done")
    /\ \A n \in 0..(MaxTicks - 1) :
          (pc = "loop" /\ running /\ tick = n) ~> (tick = n + 1)

\* C29 witness: the loop has exited after a batch in which a click came
\* after the QUIT, and the click is in the attractor list.
C29_Witness ==
    /\ pc = "done"
    /\ Len(arrived) >= 2
    /\ arrived[Len(arrived) - 1].type = "QUIT"
    /\ arrived[Len(arrived)].type = "MOUSEBUTTONDOWN"
    /\ Len(attractors) = ATTRACTOR_INIT_NUM + 1
    /\ \A k \in Boids : updates[k] = 1

\* a position on the screen, the edges included
OnScreen(position) ==
    /\ position.x >= 0 /\ position.x <= SCREEN_WIDTH * ONE
    /\ position.y >= 0 /\ position.y <= SCREEN_HEIGHT * ONE

\* a coordinate past an edge is on the opposite edge, one within the
\* bounds is where the move left it
WrappedAsSpecified(moved, extent, coordinate) ==
    /\ moved > extent => coordinate = 0
    /\ moved < 0 => coordinate = extent
    /\ (moved >= 0 /\ moved <= extent) => coordinate = moved

\* C30: in main1 every boid is on the screen at all times, and after an
\* update each coordinate of its boid is 0 if the move took it past the
\* far edge, the extent if the move took it below 0, and what the move left
\* otherwise.
C30_HardWrapKeepsOnScreen ==
    /\ \A k \in Boids : OnScreen(boids[k].position)
    /\ (Stepped /\ ~step.raised) =>
          /\ WrappedAsSpecified(step.moved.x, SCREEN_WIDTH * ONE,
                                boids[step.boid].position.x)
          /\ WrappedAsSpecified(step.moved.y, SCREEN_HEIGHT * ONE,
                                boids[step.boid].position.y)

\* C30 witness: an update moved its boid more than the smallest distance
\* past the far edge of x, with y within the bounds, and the boid is on the
\* near edge of x with y as moved.
C30_Witness ==
    /\ Stepped /\ ~step.raised
    /\ step.moved.x > SCREEN_WIDTH * ONE + 1
    /\ step.moved.y > 0 /\ step.moved.y < SCREEN_HEIGHT * ONE
    /\ boids[step.boid].position = Vec(0, step.moved.y)

====
